---- MODULE Spec2Model ----
(***************************************************************************)
(* Model of src/sortino_ratio.py: the Portfolio dataclass, its            *)
(* construction (__post_init__ -> _download_data, _portfolio_return,       *)
(* _negative_excess_returns) and its two metric methods portfolio_beta     *)
(* and sortino_ratio.                                                      *)
(*                                                                         *)
(* Numbers.  Every number the code handles is a numpy float64 taken out    *)
(* of a pandas Series.  A float is modelled as a record [k, n, d]: an      *)
(* exact rational n/d (k = "num"), an infinity of sign n (k = "inf") or    *)
(* NaN (k = "nan").  The arithmetic follows numpy: a division by zero      *)
(* raises nothing and yields inf or NaN, NaN propagates, and every         *)
(* comparison with NaN is false.  Rounding is not modelled.  The square    *)
(* root of sortino_ratio is kept symbolic: a downside deviation is stored  *)
(* as its radicand.                                                        *)
(*                                                                         *)
(* Series.  A pandas Series indexed by date is a function from a set of    *)
(* dates to floats; position 0 is the entry of the smallest date and       *)
(* position -1 the entry of the largest one.  Adding two Series aligns     *)
(* them on the union of their indexes and yields NaN where either side     *)
(* has no entry.                                                           *)
(***************************************************************************)
EXTENDS Integers, Sequences, FiniteSets

VARIABLES state, err, asset_list, risk_free_rate, history,
          portf_value, portf_data, portf_return, ner,
          portf_beta, dwn_dev,
          result, bench_data, bench_return, asset_returns,
          benchFetches, calls

vars == <<state, err, asset_list, risk_free_rate, history,
          portf_value, portf_data, portf_return, ner,
          portf_beta, dwn_dev,
          result, bench_data, bench_return, asset_returns,
          benchFetches, calls>>

(* ------------------------------ bounds --------------------------------- *)

\* number of trading dates of the window
MaxDates == 2

\* longest asset list passed to the constructor
MaxAssets == 2

\* number of metric calls made on one portfolio
MaxCalls == 2

Dates == 1..MaxDates

Assets == {"A", "B"}

Prices == {1, 2}

(* ------------------------------ floats --------------------------------- *)

Abs(x) == IF x < 0 THEN -x ELSE x

RECURSIVE GCD(_, _)
GCD(a, b) == IF b = 0 THEN a ELSE GCD(b, a % b)

Rat(n, d) ==
    LET g == GCD(Abs(n), Abs(d))
        s == IF d < 0 THEN -1 ELSE 1
    IN [k |-> "num", n |-> (s * n) \div g, d |-> (s * d) \div g]

NaN == [k |-> "nan", n |-> 0, d |-> 1]

PosInf == [k |-> "inf", n |-> 1, d |-> 1]

NegInf == [k |-> "inf", n |-> -1, d |-> 1]

Zero == Rat(0, 1)

One == Rat(1, 1)

Hundred == Rat(100, 1)

Sign(x) == IF x.n > 0 THEN 1 ELSE IF x.n < 0 THEN -1 ELSE 0

InfOf(s) == IF s > 0 THEN PosInf ELSE NegInf

FNeg(a) == [a EXCEPT !.n = -a.n]

FAdd(a, b) ==
    IF a.k = "nan" \/ b.k = "nan" THEN NaN
    ELSE IF a.k = "num" /\ b.k = "num"
         THEN Rat(a.n * b.d + b.n * a.d, a.d * b.d)
    ELSE IF a.k = "inf" /\ b.k = "inf"
         THEN (IF a.n = b.n THEN a ELSE NaN)
    ELSE IF a.k = "inf" THEN a ELSE b

FSub(a, b) == FAdd(a, FNeg(b))

FMul(a, b) ==
    IF a.k = "nan" \/ b.k = "nan" THEN NaN
    ELSE IF a.k = "num" /\ b.k = "num" THEN Rat(a.n * b.n, a.d * b.d)
    ELSE IF Sign(a) * Sign(b) = 0 THEN NaN
    ELSE InfOf(Sign(a) * Sign(b))

\* float64 division: x/0 is inf, -inf or NaN, never an exception
FDiv(a, b) ==
    IF a.k = "nan" \/ b.k = "nan" THEN NaN
    ELSE IF a.k = "num" /\ b.k = "num"
         THEN (IF b.n = 0
               THEN (IF a.n = 0 THEN NaN ELSE InfOf(Sign(a)))
               ELSE Rat(a.n * b.d, a.d * b.n))
    ELSE IF a.k = "inf" /\ b.k = "inf" THEN NaN
    ELSE IF a.k = "inf"
         THEN InfOf(Sign(a) * (IF b.n < 0 THEN -1 ELSE 1))
    ELSE Zero

FLt(a, b) ==
    IF a.k = "nan" \/ b.k = "nan" THEN FALSE
    ELSE IF a.k = "inf" THEN a.n < 0 /\ ~(b.k = "inf" /\ b.n < 0)
    ELSE IF b.k = "inf" THEN b.n > 0
    ELSE a.n * b.d < b.n * a.d

FLe(a, b) == FLt(a, b) \/ (a.k # "nan" /\ a = b)

FSquare(a) == FMul(a, a)

(* ------------------------------ series --------------------------------- *)

MinOf(S) == CHOOSE x \in S : \A y \in S : x <= y

MaxOf(S) == CHOOSE x \in S : \A y \in S : y <= x

RECURSIVE SortedDates(_)
SortedDates(S) ==
    IF S = {} THEN <<>>
    ELSE LET m == MinOf(S) IN <<m>> \o SortedDates(S \ {m})

\* the values of a Series in index order, as iteration yields them
Values(s) ==
    LET sd == SortedDates(DOMAIN s) IN [i \in 1..Len(sd) |-> s[sd[i]]]

\* s[0]
First(s) == s[MinOf(DOMAIN s)]

\* s[-1]
Last(s) == s[MaxOf(DOMAIN s)]

\* a daily close series of one ticker: any subset of the window's dates
PriceSeries ==
    UNION {[S -> {Rat(p, 1) : p \in Prices}] : S \in SUBSET Dates}

EmptySeries == [d \in {} |-> NaN]

\* Series / scalar
ScaleDown(s, len) == [d \in DOMAIN s |-> FDiv(s[d], Rat(len, 1))]

\* Series + Series: aligned on the union of the indexes
SeriesAdd(s, t) ==
    [d \in (DOMAIN s) \cup (DOMAIN t) |->
        IF d \in DOMAIN s /\ d \in DOMAIN t THEN FAdd(s[d], t[d]) ELSE NaN]

(* --------------------------- construction ------------------------------ *)

\* self.portf_value after the first k iterations of the loop; it starts as
\* the int 0 (scalar) and becomes a Series with the first addition
RECURSIVE DownloadValue(_, _, _)
DownloadValue(list, hist, k) ==
    IF k = 0 THEN [scalar |-> TRUE, s |-> EmptySeries]
    ELSE LET acc == DownloadValue(list, hist, k - 1)
             t   == ScaleDown(hist[list[k]], Len(list))
         IN IF acc.scalar THEN [scalar |-> FALSE, s |-> t]
            ELSE [scalar |-> FALSE, s |-> SeriesAdd(acc.s, t)]

DownloadData(list, hist) == [k \in 1..Len(list) |-> hist[list[k]]]

PortfolioReturn(value) ==
    FMul(FSub(FDiv(Last(value), First(value)), One), Hundred)

Threshold(value, rf) == FAdd(First(value), rf)

BelowThresholdLe(v, thr) == FLe(v, thr)

BelowThreshold(v, thr) == FLt(v, thr)

NerEntry(v, thr) == FSquare(FMul(FSub(FDiv(v, thr), One), Hundred))

RECURSIVE NerLoop(_, _, _)
NerLoop(vals, thr, k) ==
    IF k = 0 THEN <<>>
    ELSE LET rest == NerLoop(vals, thr, k - 1)
         IN IF BelowThreshold(vals[k], thr)
            THEN Append(rest, NerEntry(vals[k], thr))
            ELSE rest

NegativeExcessReturns(value, rf) ==
    LET vals == Values(value)
    IN NerLoop(vals, Threshold(value, rf), Len(vals))

(* ------------------------------- state --------------------------------- *)

AssetLists == UNION {[1..n -> Assets] : n \in 0..MaxAssets}

RiskFreeRates == {Rat(-50, 1), Rat(0, 1), Rat(1, 2)}

\* the provider's answer for every ticker; tickers that are not asked for
\* are left empty
Histories(list) ==
    {h \in [Assets -> PriceSeries] :
        \A a \in Assets :
            (\A k \in 1..Len(list) : list[k] # a) => h[a] = EmptySeries}

Unset == [set |-> FALSE, v |-> NaN]

NoResult == [op |-> "none", kind |-> "none", exc |-> "none",
             val |-> NaN, rad |-> One]

Returned(op, val, rad) ==
    [op |-> op, kind |-> "value", exc |-> "none", val |-> val, rad |-> rad]

Raised(op, exc) ==
    [op |-> op, kind |-> "raise", exc |-> exc, val |-> NaN, rad |-> One]

Init ==
    /\ state = "New"
    /\ err = "none"
    /\ asset_list = <<>>
    /\ risk_free_rate = Zero
    /\ history = [a \in Assets |-> EmptySeries]
    /\ portf_value = EmptySeries
    /\ portf_data = <<>>
    /\ portf_return = NaN
    /\ ner = <<>>
    /\ portf_beta = Unset
    /\ dwn_dev = Unset
    /\ result = NoResult
    /\ bench_data = EmptySeries
    /\ bench_return = NaN
    /\ asset_returns = <<>>
    /\ benchFetches = 0
    /\ calls = 0

\* the exception, if any, that Portfolio(list, rf) ends in
ConstructError(list, hist) ==
    LET pv == DownloadValue(list, hist, Len(list))
    IN IF pv.scalar THEN "TypeError"
       ELSE IF DOMAIN pv.s = {} THEN "IndexError"
       ELSE "none"

\* Portfolio(list, rf): __post_init__
Construct ==
    /\ state = "New"
    /\ \E list \in AssetLists, rf \in RiskFreeRates :
        \E hist \in Histories(list) :
          LET pv == DownloadValue(list, hist, Len(list))
              e  == ConstructError(list, hist)
          IN /\ asset_list' = list
             /\ risk_free_rate' = rf
             /\ history' = hist
             /\ err' = e
             /\ IF e # "none"
                THEN /\ state' = "Failed"
                     /\ UNCHANGED <<portf_value, portf_data, portf_return, ner>>
                ELSE /\ state' = "Constructed"
                     /\ portf_value' = pv.s
                     /\ portf_data' = DownloadData(list, hist)
                     /\ portf_return' = PortfolioReturn(pv.s)
                     /\ ner' = NegativeExcessReturns(pv.s, rf)
    /\ UNCHANGED <<portf_beta, dwn_dev, result, bench_data, bench_return,
                   asset_returns, benchFetches, calls>>

(* ----------------------------- metrics -------------------------------- *)

\* the benchmark download: any daily close series, possibly empty
BenchSeries == PriceSeries

\* line 85: Close[0] over Close[-1]
BenchReturn(b) == FMul(FSub(FDiv(First(b), Last(b)), One), Hundred)

\* line 93: i[0] over i[-1]
AssetReturn(i) == FMul(FSub(FDiv(First(i), Last(i)), One), Hundred)

AssetShare(i, value) == FDiv(First(i), First(value))

AssetBeta(ar, br, rf) == FDiv(FSub(ar, rf), FSub(br, rf))

\* the loop of lines 92-100 over the first k retained series: the running
\* self.portf_beta, the asset returns computed so far, and the exception
\* that stopped it (i[0] on an empty series)
RECURSIVE BetaLoop(_, _, _, _, _)
BetaLoop(data, value, br, rf, k) ==
    IF k = 0 THEN [exc |-> "none", acc |-> Zero, rets |-> <<>>]
    ELSE LET prev == BetaLoop(data, value, br, rf, k - 1)
             i    == data[k]
         IN IF prev.exc # "none" THEN prev
            ELSE IF DOMAIN i = {} THEN [prev EXCEPT !.exc = "IndexError"]
            ELSE LET ar == AssetReturn(i)
                     contrib == FDiv(FMul(AssetBeta(ar, br, rf),
                                          AssetShare(i, value)),
                                     Rat(Len(data), 1))
                 IN [exc  |-> "none",
                     acc  |-> FAdd(prev.acc, contrib),
                     rets |-> Append(prev.rets, ar)]

\* portfolio_beta()
PortfolioBeta ==
    /\ state = "Constructed"
    /\ calls < MaxCalls
    /\ calls' = calls + 1
    /\ \E b \in BenchSeries :
        /\ bench_data' = b
        /\ benchFetches' = benchFetches + 1
        /\ IF DOMAIN b = {}
           THEN /\ result' = Raised("portfolio_beta", "IndexError")
                /\ bench_return' = NaN
                /\ asset_returns' = <<>>
                /\ UNCHANGED portf_beta
           ELSE LET br == BenchReturn(b)
                    lp == BetaLoop(portf_data, portf_value, br,
                                   risk_free_rate, Len(portf_data))
                IN /\ bench_return' = br
                   /\ asset_returns' = lp.rets
                   /\ portf_beta' = [set |-> TRUE, v |-> lp.acc]
                   /\ result' = IF lp.exc # "none"
                                THEN Raised("portfolio_beta", lp.exc)
                                ELSE Returned("portfolio_beta", lp.acc, One)
    /\ UNCHANGED <<state, err, asset_list, risk_free_rate, history,
                   portf_value, portf_data, portf_return, ner, dwn_dev>>

RECURSIVE SumSeq(_, _)
SumSeq(q, k) == IF k = 0 THEN Zero ELSE FAdd(SumSeq(q, k - 1), q[k])

\* the value (return - rf) / sqrt(rad): inf or NaN when the radicand is 0,
\* otherwise the numerator together with the radicand
SortinoValue(ret, rf, rad) ==
    LET num == FSub(ret, rf)
    IN IF rad.n = 0 THEN Returned("sortino_ratio", FDiv(num, Zero), One)
       ELSE IF num.k # "num" THEN Returned("sortino_ratio", FDiv(num, One), One)
       ELSE Returned("sortino_ratio", num, rad)

\* sortino_ratio()
SortinoRatio ==
    /\ state = "Constructed"
    /\ calls < MaxCalls
    /\ calls' = calls + 1
    /\ LET rad == SumSeq(ner, Len(ner))
       IN /\ dwn_dev' = [set |-> TRUE, v |-> rad]
          /\ result' = SortinoValue(portf_return, risk_free_rate, rad)
    /\ UNCHANGED <<state, err, asset_list, risk_free_rate, history,
                   portf_value, portf_data, portf_return, ner, portf_beta,
                   bench_data, bench_return, asset_returns, benchFetches>>

Next == Construct \/ PortfolioBeta \/ SortinoRatio

Spec == Init /\ [][Next]_vars

\* construction alone: the object as __post_init__ leaves it
SpecConstruct == Init /\ [][Construct]_vars

(* ------------------------------ claims --------------------------------- *)

\* the dates on which every asset of the list has a price
CommonDates ==
    {d \in Dates :
        \A k \in 1..Len(asset_list) : d \in DOMAIN history[asset_list[k]]}

RECURSIVE PriceSum(_, _)
PriceSum(d, k) ==
    IF k = 0 THEN Zero ELSE FAdd(PriceSum(d, k - 1), history[asset_list[k]][d])

MeanPrice(d) == FDiv(PriceSum(d, Len(asset_list)), Rat(Len(asset_list), 1))

HasDuplicate(list) ==
    \E i, j \in 1..Len(list) : i # j /\ list[i] = list[j]

HasEmptyAsset ==
    \E k \in 1..Len(asset_list) : history[asset_list[k]] = EmptySeries

\* C1: whenever the negative excess return set is empty, a sortino_ratio
\* call ends in UndefinedRatioError and returns no value.
C1_EmptyNerRaisesUndefinedRatio ==
    (result.op = "sortino_ratio" /\ ner = <<>>)
        => (result.kind = "raise" /\ result.exc = "UndefinedRatioError")

\* C2: in portfolio_beta the benchmark return and every asset return use the
\* convention of the portfolio return, (price[last] / price[first] - 1) * 100.
C2_ChronologicalReturns ==
    (result.op = "portfolio_beta" /\ bench_data # EmptySeries)
        => /\ bench_return = PortfolioReturn(bench_data)
           /\ \A k \in 1..Len(asset_returns) :
                 asset_returns[k] = PortfolioReturn(portf_data[k])

\* C3: after construction the value series has exactly one entry per date
\* common to all assets, each the mean of the assets' prices on that date.
C3_ValueSeriesOnCommonDates ==
    state = "Constructed"
        => /\ DOMAIN portf_value = CommonDates
           /\ \A d \in DOMAIN portf_value : portf_value[d] = MeanPrice(d)

\* C4: after construction ner holds, in series order, exactly one entry
\* ((v / (value[first] + rf) - 1) * 100)^2 for each position whose value v
\* is strictly below value[first] + rf, and nothing for the other positions.
C4_NegativeExcessReturnSet ==
    state = "Constructed"
        => LET vals  == Values(portf_value)
               thr   == FAdd(vals[1], risk_free_rate)
               below == {i \in 1..Len(vals) : FLt(vals[i], thr)}
               rank(i) == Cardinality({j \in below : j <= i})
           IN /\ Len(ner) = Cardinality(below)
              /\ \A i \in below :
                    LET pct == FMul(FSub(FDiv(vals[i], thr), One), Hundred)
                    IN ner[rank(i)] = FMul(pct, pct)

\* C4 witness: a constructed portfolio with an entry for a value below the
\* threshold and a value at or above the threshold that contributes none.
C4_Witness ==
    /\ state = "Constructed"
    /\ Len(ner) >= 1
    /\ \E d \in DOMAIN portf_value :
          FLe(FAdd(First(portf_value), risk_free_rate), portf_value[d])
    /\ \E d \in DOMAIN portf_value :
          FLt(portf_value[d], FAdd(First(portf_value), risk_free_rate))

\* C5: when the benchmark return equals the risk-free rate, portfolio_beta
\* ends in DegenerateBenchmarkError and returns no beta.
C5_DegenerateBenchmarkRaises ==
    (/\ result.op = "portfolio_beta"
     /\ bench_data # EmptySeries
     /\ PortfolioReturn(bench_data) = risk_free_rate)
        => (result.kind = "raise" /\ result.exc = "DegenerateBenchmarkError")

\* C6: if any requested asset yields no data point, construction fails with
\* DataUnavailableError and the portfolio is never Constructed.
C6_EmptyAssetFailsConstruction ==
    (state # "New" /\ HasEmptyAsset)
        => (state = "Failed" /\ err = "DataUnavailableError")

Fields ==
    <<asset_list, risk_free_rate, portf_value, portf_data, portf_return,
      ner, portf_beta, dwn_dev>>

\* C7: a metric call leaves every instance field of a constructed portfolio
\* as it was, and a call repeated right after itself gives the same result.
C7_MetricsArePureReads ==
    [][state = "Constructed"
          => /\ Fields' = Fields
             /\ (result.op # "none" /\ result'.op = result.op)
                   => result' = result]_vars

\* C8: a value series of fewer than 2 points makes the portfolio return fail
\* with InsufficientDataError; no return value is produced.
C8_ShortSeriesIsInsufficientData ==
    (/\ state # "New"
     /\ Len(asset_list) > 0
     /\ Cardinality(DOMAIN DownloadValue(asset_list, history,
                                         Len(asset_list)).s) < 2)
        => (state = "Failed" /\ err = "InsufficientDataError")

\* C9: an asset list with a duplicate is rejected with ConfigurationError and
\* the portfolio is never Constructed.
C9_DuplicatesRejected ==
    (state # "New" /\ HasDuplicate(asset_list))
        => (state = "Failed" /\ err = "ConfigurationError")

\* C10: the benchmark series is fetched at most once per portfolio.
C10_BenchmarkFetchedOnce == benchFetches <= 1

====
